---- MODULE Spec2Model ----
(***************************************************************************)
(* Model of the preview tool (command "preview create"): the naming codec  *)
(* of create-preview-sample/main.go and the four stages of cmdCreate.RunE  *)
(* (createService, createDeploy, createSidecarVirtualService,              *)
(* createGatewayVirtualService) against the workload and routing           *)
(* registries.                                                             *)
(*                                                                         *)
(* Go strings are sequences of one-character strings, so that HasPrefix,   *)
(* SplitN and Sprintf are computed character by character.  Go maps are    *)
(* sets of <<key, value>> pairs; a nil pointer or an absent optional value *)
(* is the empty sequence and a present one a sequence of length one.       *)
(***************************************************************************)
EXTENDS Integers, Sequences, FiniteSets, TLC

VARIABLES
    services,     \* workload registry: Services of namespace "default"
    deployments,  \* workload registry: Deployments of namespace "default"
    vss,          \* routing registry: VirtualServices of all namespaces
    pc,           \* per invocation: the call it is about to make
    kind,         \* per invocation: "RunE" or "compose" (createSidecarVirtualService alone)
    args,         \* per invocation: originService, previewVersion, previewURL, previewGateway
    selector,     \* per invocation: *deploySelector returned by createService
    base,         \* per invocation: baseResource of createSidecarVirtualService
    err,          \* per invocation: the error returned ("nil" is nil)
    snapshot,     \* history: the registries when the invocation started
    writes,       \* history: the registry writes the invocation has made, in order
    runs,         \* history: number of invocations started
    faults,       \* history: number of transport failures injected
    clean,        \* history: every invocation so far returned nil
    overlap,      \* history: an invocation started while another was in flight
    cpc,          \* codec harness: position
    cName,        \* codec harness: origin name
    cVersion,     \* codec harness: version tag
    cPreview,     \* codec harness: previewName(cName, cVersion)
    cDecoded      \* codec harness: getVersionFromPreview(cPreview)

clusterVars == <<services, deployments, vss>>
procVars == <<pc, kind, args, selector, base, err>>
histVars == <<snapshot, writes, runs, faults, clean, overlap>>
codecVars == <<cpc, cName, cVersion, cPreview, cDecoded>>
vars == <<services, deployments, vss, pc, kind, args, selector, base, err,
          snapshot, writes, runs, faults, clean, overlap,
          cpc, cName, cVersion, cPreview, cDecoded>>

-----------------------------------------------------------------------------
(* Bounds *)

\* longest origin name and version tag of the codec harness
MaxLen == 2

\* preview creations (RunE) started in one behaviour
MaxRuns == 3

\* route compositions started in one behaviour of the composition on its own
MaxCompositions == 3

\* route compositions started in one behaviour of the interleaved composition
MaxRacers == 2

\* transport failures (client, list, create, patch) injected in one behaviour
MaxFaults == 1

-----------------------------------------------------------------------------
(* Strings *)

\* strings.HasPrefix
HasPrefix(s, prefix) ==
    /\ Len(prefix) <= Len(s)
    /\ SubSeq(s, 1, Len(prefix)) = prefix

\* strings.Contains
Contains(s, sub) ==
    \E i \in 1..(Len(s) - Len(sub) + 1) : SubSeq(s, i, i + Len(sub) - 1) = sub

RECURSIVE StringsUpTo(_, _)
StringsUpTo(alphabet, n) ==
    IF n = 0 THEN {<<>>}
    ELSE LET shorter == StringsUpTo(alphabet, n - 1)
         IN  shorter \cup {<<c>> \o s : c \in alphabet, s \in {t \in shorter : Len(t) = n - 1}}

previewPrefixName == <<"p", "r">>

separator == <<"-">>

appNamespace == <<"d", "e", "f", "a", "u", "l", "t">>

istioNamespace == <<"i", "s", "t", "i", "o", "-", "s", "y", "s", "t", "e", "m">>

previewHeader == "X-PREVIEW"

previewNameNoSeparator(origin, version) == previewPrefixName \o version \o origin

\* fmt.Sprintf("%s%s-%s", previewPrefixName, version, origin)
previewName(origin, version) == previewPrefixName \o version \o separator \o origin

\* strings.SplitN(s, "-", 2)[0]: s up to its first separator, all of s without one
RECURSIVE SplitN2First(_)
SplitN2First(s) ==
    IF s = <<>> THEN <<>>
    ELSE IF <<Head(s)>> = separator THEN <<>>
    ELSE <<Head(s)>> \o SplitN2First(Tail(s))

getVersionFromPreviewNoStrip(s) ==
    IF ~HasPrefix(s, previewPrefixName) THEN s
    ELSE SplitN2First(s)

getVersionFromPreview(s) ==
    IF ~HasPrefix(s, previewPrefixName) THEN s
    ELSE SplitN2First(SubSeq(s, Len(previewPrefixName) + 1, Len(s)))

\* fmt.Sprintf("%s%s-virtual-service", previewPrefixName, originSvc)
previewVirtualServiceName(originSvc) ==
    previewPrefixName \o originSvc
        \o <<"-", "v", "i", "r", "t", "u", "a", "l", "-", "s", "e", "r", "v", "i", "c", "e">>

\* fmt.Sprintf("%s-gateway-virtual-service", previewName(originSvc, version))
previewGatewayVirtualServiceName(originSvc, version) ==
    previewName(originSvc, version)
        \o <<"-", "g", "a", "t", "e", "w", "a", "y">>
        \o <<"-", "v", "i", "r", "t", "u", "a", "l", "-", "s", "e", "r", "v", "i", "c", "e">>

\* fmt.Sprintf("%s.%s.svc.cluster.local", originSvcName, appNamespace)
serviceHost(originSvcName) ==
    originSvcName \o <<".">> \o appNamespace
        \o <<".", "s", "v", "c", ".", "c", "l", "u", "s", "t", "e", "r", ".", "l", "o", "c", "a", "l">>

-----------------------------------------------------------------------------
(* Maps and optional values *)

MapKeys(m) == {e[1] : e \in m}

MapGet(m, k) == (CHOOSE e \in m : e[1] = k)[2]

\* m[k] = v
MapSet(m, k, v) == {e \in m : e[1] # k} \cup {<<k, v>>}

Nil == <<>>

Some(x) == <<x>>

-----------------------------------------------------------------------------
(* Registry objects *)

\* corev1.Service: Name, Labels (nil or a map), Spec.Selector
Service(name, labelsNil, labels, sel) ==
    [name |-> name, labelsNil |-> labelsNil, labels |-> labels, selector |-> sel]

\* var baseSvc corev1.Service
ZeroService == Service(<<>>, TRUE, {}, {})

\* appsv1.Deployment: Name, Spec.Selector.MatchLabels, Spec.Template.Labels
Deployment(name, matchLabels, tmplLabels) ==
    [name |-> name, matchLabels |-> matchLabels, tmplLabels |-> tmplLabels]

\* networkingv1beta1.HTTPRoute: Name, Match (header X-PREVIEW prefixes),
\* Route[0].Destination.Host, Route[0].Headers.Request.Add[X-PREVIEW]
HTTPRoute(name, match, host, add) ==
    [name |-> name, match |-> match, host |-> host, add |-> add]

\* istionetworking.VirtualService: Name, Namespace, Spec.Hosts, Spec.Gateways, Spec.Http
VirtualService(name, ns, hosts, gateways, http) ==
    [name |-> name, ns |-> ns, hosts |-> hosts, gateways |-> gateways, http |-> http]

Elems(seq) == {seq[i] : i \in 1..Len(seq)}

-----------------------------------------------------------------------------
(* sort.Slice(baseResource.Spec.Http, less), as the library runs it on a slice
   of fewer than 7 elements: there its older quicksort and its newer pdqsort
   both reduce to exactly this insertion sort, and no route table of this model
   grows longer.  less ignores its second index. *)

lessByMatch(http, i) == http[i].match # <<>>

\* func(i, _ int) bool { return strings.HasPrefix(Http[i].Name, previewPrefixName) }
less(http, i) == HasPrefix(http[i].name, previewPrefixName)

Swap(s, i, j) == [s EXCEPT ![i] = s[j], ![j] = s[i]]

\* for j := i; j > a && data.Less(j, j-1); j-- { data.Swap(j, j-1) }
RECURSIVE insertionInner(_, _)
insertionInner(s, j) ==
    IF j > 1 /\ less(s, j) THEN insertionInner(Swap(s, j, j - 1), j - 1) ELSE s

\* for i := a + 1; i < b; i++ { ... }
RECURSIVE insertionSort(_, _)
insertionSort(s, i) ==
    IF i > Len(s) THEN s ELSE insertionSort(insertionInner(s, i), i + 1)

\* a stable partition, which the library's sort.Slice is not
stablePartition(http) ==
    SelectSeq(http, LAMBDA r : HasPrefix(r.name, previewPrefixName))
        \o SelectSeq(http, LAMBDA r : ~HasPrefix(r.name, previewPrefixName))

sortSlice(http) == insertionSort(http, 2)

-----------------------------------------------------------------------------
(* Inputs and initial registries *)

Procs == {1, 2}

\* --service: an ordinary name, a name that itself starts with "pr", and the
\* name of a Service with an empty selector (or of no Service at all)
Checkout == <<"c">>
Product == <<"p", "r", "o">>
Bare == <<"e">>
Origins == {Checkout, Product, Bare}

\* --version
Versions == {<<"4">>, <<"5">>, <<"4", "-", "2">>}

\* --url and --gateway
PreviewURL == <<"h", "t", "t", "p", "s", ":", "/", "/", "x", ".", "i", "o">>
PreviewGateway == <<"m", "y", "-", "g", "a", "t", "e", "w", "a", "y">>

app == <<"a", "p", "p">>

\* an origin Service with selector {app: name} and the Deployment it selects
OriginService(name, labelsNil) ==
    Service(name, labelsNil, IF labelsNil THEN {} ELSE {<<app, name>>}, {<<app, name>>})

OriginDeployment(name) == Deployment(name, {<<app, name>>}, {<<app, name>>})

\* the default route of an origin's sidecar routing object
DefaultRoute(originHost) == HTTPRoute(originHost, <<>>, originHost, Nil)

InFlight == {"createService", "createDeploy", "sidecarList", "sidecarCreate",
             "sidecarPatch", "createGateway"}

Resting == {"idle", "done", "failed", "panicked"}

InitProcs ==
    /\ pc = [p \in Procs |-> "idle"]
    /\ kind = [p \in Procs |-> "RunE"]
    /\ args = [p \in Procs |-> [originService |-> <<>>, previewVersion |-> <<>>]]
    /\ selector = [p \in Procs |-> Nil]
    /\ base = [p \in Procs |-> Nil]
    /\ err = [p \in Procs |-> "nil"]
    /\ snapshot = [p \in Procs |-> <<services, deployments, vss>>]
    /\ writes = [p \in Procs |-> <<>>]
    /\ runs = 0
    /\ faults = 0
    /\ clean = TRUE
    /\ overlap = FALSE

InitCodecOff ==
    /\ cpc = "off"
    /\ cName = <<>>
    /\ cVersion = <<>>
    /\ cPreview = <<>>
    /\ cDecoded = <<>>

\* The registries before the first invocation: the origin Services (checkout's
\* Labels nil or not, the bare one absent or with an empty selector), their
\* Deployments (product's possibly missing) and no routing object.
Init ==
    /\ \E labelsNil \in BOOLEAN, bare \in SUBSET {Service(Bare, FALSE, {}, {})} :
          services = {OriginService(Checkout, labelsNil), OriginService(Product, FALSE)} \cup bare
    /\ \E dep \in SUBSET {OriginDeployment(Product)} :
          deployments = {OriginDeployment(Checkout)} \cup dep
    /\ vss = {}
    /\ InitProcs
    /\ InitCodecOff

-----------------------------------------------------------------------------
(* Outcomes of a step of an invocation *)

\* the transport failures a step may suffer, within the budget
Faults(kinds) == {"none"} \cup (IF faults < MaxFaults THEN kinds ELSE {})

Inject(fault) == faults' = IF fault = "none" THEN faults ELSE faults + 1

Advance(p, next) ==
    /\ pc' = [pc EXCEPT ![p] = next]
    /\ err' = err
    /\ clean' = clean

failSwallowed(p, e) ==
    /\ pc' = [pc EXCEPT ![p] = "failed"]
    /\ err' = err
    /\ clean' = FALSE

\* return err
Fail(p, e) ==
    /\ pc' = [pc EXCEPT ![p] = "failed"]
    /\ err' = [err EXCEPT ![p] = e]
    /\ clean' = FALSE

\* return nil
Succeed(p) ==
    /\ pc' = [pc EXCEPT ![p] = "done"]
    /\ err' = [err EXCEPT ![p] = "nil"]
    /\ clean' = clean

\* a nil map assignment or nil pointer dereference ends the process
Panic(p) ==
    /\ pc' = [pc EXCEPT ![p] = "panicked"]
    /\ err' = err
    /\ clean' = FALSE

Wrote(p, what) == writes' = [writes EXCEPT ![p] = Append(@, what)]

Begin(p, k, origin, version, first, limit) ==
    /\ pc[p] \in Resting
    /\ runs < limit
    /\ runs' = runs + 1
    /\ pc' = [pc EXCEPT ![p] = first]
    /\ kind' = [kind EXCEPT ![p] = k]
    /\ args' = [args EXCEPT ![p] = [originService |-> origin, previewVersion |-> version]]
    /\ selector' = [selector EXCEPT ![p] = Nil]
    /\ base' = [base EXCEPT ![p] = Nil]
    /\ err' = [err EXCEPT ![p] = "nil"]
    /\ snapshot' = [snapshot EXCEPT ![p] = <<services, deployments, vss>>]
    /\ writes' = [writes EXCEPT ![p] = <<>>]
    /\ overlap' = (overlap \/ \E q \in Procs \ {p} : pc[q] \in InFlight)
    /\ UNCHANGED <<clusterVars, faults, clean, codecVars>>

\* cmdCreate.RunE is entered with the flags' values
RunE(p, origin, version) == Begin(p, "RunE", origin, version, "createService", MaxRuns)

-----------------------------------------------------------------------------
(* createService *)

\* for _, item := range svcs.Items { if item.Name == name { baseSvc = item; break } }
FindService(name) ==
    IF \E s \in services : s.name = name
    THEN CHOOSE s \in services : s.name = name
    ELSE ZeroService

\* for k, v := range baseSvc.Spec.Selector { selector = &deploySelector{k, v} }:
\* the entries the loop can leave in selector (the one iterated last, in the
\* map's order); none is selector == nil
resolveSelectorDefaulted(baseSvc) ==
    IF baseSvc.selector = {} THEN {<<<<"a", "p", "p">>, baseSvc.name>>} ELSE baseSvc.selector

resolveSelector(baseSvc) == baseSvc.selector

\* itf.Create refuses a name the registry already holds
serviceExistsIgnored(name) == FALSE

serviceExists(name) == \E s \in services : s.name = name

newServiceUnversioned(baseSvc, sel, version) ==
    Service(previewName(baseSvc.name, <<>>), FALSE,
            MapSet(baseSvc.labels, sel[1], previewName(sel[2], version)),
            MapSet(baseSvc.selector, sel[1], previewName(sel[2], version)))

\* newSvc: the copy renamed and retagged at the selector key
NewService(baseSvc, sel, version) ==
    Service(previewName(baseSvc.name, version), FALSE,
            MapSet(baseSvc.labels, sel[1], previewName(sel[2], version)),
            MapSet(baseSvc.selector, sel[1], previewName(sel[2], version)))

createService(p) ==
    /\ pc[p] = "createService"
    /\ \E fault \in Faults({"client", "list", "create"}) :
        LET baseSvc == FindService(args[p].originService)
        IN  /\ Inject(fault)
            /\ IF fault \in {"client", "list"}
               THEN /\ Fail(p, "RemoteTransport")
                    /\ UNCHANGED <<services, selector, writes>>
               ELSE IF resolveSelector(baseSvc) = {}
               THEN /\ Fail(p, "SelectorNotFound")
                    /\ UNCHANGED <<services, selector, writes>>
               ELSE \E sel \in resolveSelector(baseSvc) :
                      IF baseSvc.labelsNil
                      THEN \* newSvc.Labels[selector.key] = ... on a nil map
                           /\ Panic(p)
                           /\ UNCHANGED <<services, selector, writes>>
                      ELSE IF fault = "create"
                      THEN /\ Fail(p, "RemoteTransport")
                           /\ UNCHANGED <<services, selector, writes>>
                      ELSE LET newSvc == NewService(baseSvc, sel, args[p].previewVersion)
                           IN  IF serviceExists(newSvc.name)
                               THEN /\ Fail(p, "AlreadyExists")
                                    /\ UNCHANGED <<services, selector, writes>>
                               ELSE /\ services' = services \cup {newSvc}
                                    /\ selector' = [selector EXCEPT ![p] = Some(sel)]
                                    /\ Wrote(p, "Service")
                                    /\ Advance(p, "createDeploy")
    /\ UNCHANGED <<deployments, vss, kind, args, base, snapshot, runs, overlap, codecVars>>

-----------------------------------------------------------------------------
(* createDeploy *)

matchingDeploymentsAny(sel) == deployments

\* the Deployments whose match labels hold selector.key == selector.value
MatchingDeployments(sel) ==
    {d \in deployments : sel[1] \in MapKeys(d.matchLabels) /\ MapGet(d.matchLabels, sel[1]) = sel[2]}

NewDeployment(baseDeploy, sel, version) ==
    Deployment(previewName(baseDeploy.name, version),
               MapSet(baseDeploy.matchLabels, sel[1], previewName(sel[2], version)),
               IF sel[1] \in MapKeys(baseDeploy.tmplLabels)
               THEN MapSet(baseDeploy.tmplLabels, sel[1], previewName(sel[2], version))
               ELSE baseDeploy.tmplLabels)

createDeploy(p) ==
    /\ pc[p] = "createDeploy"
    /\ \E fault \in Faults({"client", "list", "create"}) :
        LET sel == selector[p][1]
        IN  /\ Inject(fault)
            /\ IF fault \in {"client", "list"}
               THEN /\ Fail(p, "RemoteTransport")
                    /\ UNCHANGED <<deployments, writes>>
               ELSE IF MatchingDeployments(sel) = {}
               THEN \* baseDeploy is the zero value: its Spec.Selector is a nil pointer
                    /\ Panic(p)
                    /\ UNCHANGED <<deployments, writes>>
               ELSE \* the first match in the order of the list
                    \E baseDeploy \in MatchingDeployments(sel) :
                      IF fault = "create"
                      THEN /\ Fail(p, "RemoteTransport")
                           /\ UNCHANGED <<deployments, writes>>
                      ELSE LET newDeploy == NewDeployment(baseDeploy, sel, args[p].previewVersion)
                           IN  IF \E d \in deployments : d.name = newDeploy.name
                               THEN /\ Fail(p, "AlreadyExists")
                                    /\ UNCHANGED <<deployments, writes>>
                               ELSE /\ deployments' = deployments \cup {newDeploy}
                                    /\ Wrote(p, "Deployment")
                                    /\ Advance(p, "sidecarList")
    /\ UNCHANGED <<services, vss, kind, args, selector, base, snapshot, runs, overlap, codecVars>>

-----------------------------------------------------------------------------
(* createSidecarVirtualService: the list, the create of a missing routing
   object and the patch are three calls to the routing registry, and so three
   steps that another invocation can come between. *)

candidatesAnyGateway(originHost) ==
    {v \in vss : originHost \in Elems(v.hosts)}

\* the listed routing objects with no gateway and the origin host among Hosts
Candidates(originHost) ==
    {v \in vss : Len(v.gateways) = 0 /\ originHost \in Elems(v.hosts)}

baseVirtualServiceEmpty(originSvcName) ==
    VirtualService(previewVirtualServiceName(originSvcName), istioNamespace,
                   <<serviceHost(originSvcName)>>, <<>>, <<>>)

\* base: the routing object created for an origin that has none
BaseVirtualService(originSvcName) ==
    VirtualService(previewVirtualServiceName(originSvcName), istioNamespace,
                   <<serviceHost(originSvcName)>>, <<>>,
                   <<DefaultRoute(serviceHost(originSvcName))>>)

\* route: header X-PREVIEW has prefix previewName("", version) -> previewHost
PreviewRoute(originSvcName, version) ==
    HTTPRoute(previewName(serviceHost(originSvcName), version),
              <<previewName(<<>>, version)>>,
              previewName(serviceHost(originSvcName), version),
              Nil)

composeReplacing(http, originSvcName, version) ==
    sortSlice(<<PreviewRoute(originSvcName, version)>>)

composeAtEnd(http, originSvcName, version) ==
    Append(http, PreviewRoute(originSvcName, version))

composeStable(http, originSvcName, version) ==
    stablePartition(Append(http, PreviewRoute(originSvcName, version)))

\* Spec.Http = append(Spec.Http, route), then sort.Slice
Compose(http, originSvcName, version) ==
    sortSlice(Append(http, PreviewRoute(originSvcName, version)))

\* itf.Patch(name, ApplyPatchType, body, force): the routing object of that
\* name in the interface's namespace takes the body's content
Patched(body) ==
    {v \in vss : ~(v.ns = istioNamespace /\ v.name = body.name)} \cup {body}

sidecarList(p) ==
    /\ pc[p] = "sidecarList"
    /\ \E fault \in Faults({"client", "list"}) :
        LET originHost == serviceHost(args[p].originService)
        IN  /\ Inject(fault)
            /\ IF fault = "client"
               THEN \* "if err != err" never returns: ics is nil at the List call
                    /\ Panic(p)
                    /\ UNCHANGED base
               ELSE IF fault = "list"
               THEN /\ Fail(p, "RemoteTransport")
                    /\ UNCHANGED base
               ELSE IF Candidates(originHost) = {}
               THEN /\ Advance(p, "sidecarCreate")
                    /\ UNCHANGED base
               ELSE \* the last candidate in the order of the list
                    \E found \in Candidates(originHost) :
                      /\ base' = [base EXCEPT ![p] = Some(found)]
                      /\ Advance(p, "sidecarPatch")
    /\ UNCHANGED <<clusterVars, kind, args, selector, snapshot, writes, runs, overlap, codecVars>>

sidecarCreate(p) ==
    /\ pc[p] = "sidecarCreate"
    /\ \E fault \in Faults({"create"}) :
        LET new == BaseVirtualService(args[p].originService)
        IN  /\ Inject(fault)
            /\ IF fault = "create"
               THEN /\ Fail(p, "RemoteTransport")
                    /\ UNCHANGED <<vss, base, writes>>
               ELSE IF \E v \in vss : v.ns = new.ns /\ v.name = new.name
               THEN /\ Fail(p, "AlreadyExists")
                    /\ UNCHANGED <<vss, base, writes>>
               ELSE /\ vss' = vss \cup {new}
                    /\ base' = [base EXCEPT ![p] = Some(new)]
                    /\ Wrote(p, "SidecarCreate")
                    /\ Advance(p, "sidecarPatch")
    /\ UNCHANGED <<services, deployments, kind, args, selector, snapshot, runs, overlap, codecVars>>

sidecarPatch(p) ==
    /\ pc[p] = "sidecarPatch"
    /\ \E fault \in Faults({"patch"}) :
        LET baseResource == base[p][1]
            body == [baseResource EXCEPT
                        !.http = Compose(@, args[p].originService, args[p].previewVersion)]
        IN  /\ Inject(fault)
            /\ base' = [base EXCEPT ![p] = Some(body)]
            /\ IF fault = "patch"
               THEN /\ Fail(p, "RemoteTransport")
                    /\ UNCHANGED <<vss, writes>>
               ELSE IF body.ns # istioNamespace
               THEN \* the body names another namespace than the request
                    /\ Fail(p, "BadRequest")
                    /\ UNCHANGED <<vss, writes>>
               ELSE /\ vss' = Patched(body)
                    /\ Wrote(p, "SidecarPatch")
                    /\ IF kind[p] = "RunE"
                       THEN Advance(p, "createGateway")
                       ELSE Succeed(p)
    /\ UNCHANGED <<services, deployments, kind, args, selector, snapshot, runs, overlap, codecVars>>

createSidecarVirtualService(p) == sidecarList(p) \/ sidecarCreate(p) \/ sidecarPatch(p)

\* createSidecarVirtualService called on its own
callCreateSidecarVirtualService(p, origin, version, limit) ==
    Begin(p, "compose", origin, version, "sidecarList", limit)

-----------------------------------------------------------------------------
(* createGatewayVirtualService *)

GatewayVirtualService(url, gateway, originSvcName, version) ==
    VirtualService(previewGatewayVirtualServiceName(originSvcName, version), istioNamespace,
                   <<url>>, <<gateway>>,
                   <<HTTPRoute(previewName(serviceHost(originSvcName), version), <<>>,
                               previewName(serviceHost(originSvcName), version),
                               Some(previewName(originSvcName, version)))>>)

createGatewayVirtualService(p) ==
    /\ pc[p] = "createGateway"
    /\ \E fault \in Faults({"client", "create"}) :
        LET vs == GatewayVirtualService(PreviewURL, PreviewGateway,
                                        args[p].originService, args[p].previewVersion)
        IN  /\ Inject(fault)
            /\ IF fault = "client"
               THEN \* "if err != err" never returns: ics is nil at VirtualServices()
                    /\ Panic(p)
                    /\ UNCHANGED <<vss, writes>>
               ELSE IF fault = "create"
               THEN /\ Fail(p, "RemoteTransport")
                    /\ UNCHANGED <<vss, writes>>
               ELSE IF \E v \in vss : v.ns = vs.ns /\ v.name = vs.name
               THEN /\ Fail(p, "AlreadyExists")
                    /\ UNCHANGED <<vss, writes>>
               ELSE /\ vss' = vss \cup {vs}
                    /\ Wrote(p, "Gateway")
                    /\ Succeed(p)
    /\ UNCHANGED <<services, deployments, kind, args, selector, base, snapshot, runs, overlap, codecVars>>

-----------------------------------------------------------------------------
(* Specifications *)

\* preview creations one after the other
Next ==
    \/ \E origin \in Origins, version \in Versions : RunE(1, origin, version)
    \/ createService(1)
    \/ createDeploy(1)
    \/ createSidecarVirtualService(1)
    \/ createGatewayVirtualService(1)

Spec == Init /\ [][Next]_vars

-----------------------------------------------------------------------------
(* Route composition on its own: createSidecarVirtualService called for one
   origin and version after the other, on registries that hold no routing
   object or a mesh routing object of the operator's for the checkout host. *)

MeshName == <<"m", "e", "s", "h">>

CanaryRoute == HTTPRoute(<<"b", "e", "t", "a">>, <<<<"b">>>>, <<"b", "e", "t", "a">>, Nil)

MeshVirtualService ==
    VirtualService(MeshName, istioNamespace, <<serviceHost(Checkout)>>, <<>>,
                   <<CanaryRoute, DefaultRoute(serviceHost(Checkout))>>)

\* the checkout routing object as a creation of version 4 left it (with the
\* gateway routing object of that creation, in ListedAtStart)
EarlierVirtualService ==
    [BaseVirtualService(Checkout) EXCEPT
        !.http = <<PreviewRoute(Checkout, <<"4">>), DefaultRoute(serviceHost(Checkout))>>]

\* a mesh routing object of the operator's whose table is not partitioned:
\* the default route first, a preview route of the operator's own after it
MixedVirtualService ==
    VirtualService(MeshName, istioNamespace, <<serviceHost(Checkout)>>, <<>>,
                   <<DefaultRoute(serviceHost(Checkout)), PreviewRoute(Checkout, <<"5">>)>>)

EdgeName == <<"e", "d", "g", "e">>

\* a routing object bound to a gateway, with the checkout host among its hosts
EdgeVirtualService ==
    VirtualService(EdgeName, istioNamespace, <<serviceHost(Checkout)>>, <<PreviewGateway>>,
                   <<DefaultRoute(serviceHost(Checkout))>>)

\* a mesh routing object for another host
OtherVirtualService ==
    VirtualService(<<"o", "t", "h", "e", "r">>, istioNamespace, <<serviceHost(Bare)>>, <<>>,
                   <<DefaultRoute(serviceHost(Bare))>>)

\* a mesh routing object for the checkout host kept in the application's
\* namespace, under the name the gateway-bound one has in istio-system
ForeignVirtualService ==
    VirtualService(EdgeName, appNamespace, <<serviceHost(Checkout)>>, <<>>,
                   <<DefaultRoute(serviceHost(Checkout))>>)

\* the routing objects the list over all namespaces may return
ListedAtStart ==
    {{}, {MeshVirtualService},
     {EarlierVirtualService,
      GatewayVirtualService(PreviewURL, PreviewGateway, Checkout, <<"4">>)},
     {EdgeVirtualService, OtherVirtualService},
     {MixedVirtualService, EdgeVirtualService, OtherVirtualService},
     {ForeignVirtualService, EdgeVirtualService}}

InitCompose ==
    /\ services = {OriginService(Checkout, FALSE), OriginService(Product, FALSE)}
    /\ deployments = {OriginDeployment(Checkout), OriginDeployment(Product)}
    /\ vss \in ListedAtStart
    /\ InitProcs
    /\ InitCodecOff

NextCompose ==
    \/ \E origin \in {Checkout, Product}, version \in Versions :
          callCreateSidecarVirtualService(1, origin, version, MaxCompositions)
    \/ createSidecarVirtualService(1)

SpecCompose == InitCompose /\ [][NextCompose]_vars

\* route composition from registries that hold no routing object at all
InitFresh ==
    /\ InitCompose
    /\ vss = {}

SpecFresh == InitFresh /\ [][NextCompose]_vars

-----------------------------------------------------------------------------
(* Preview creations for two origins whose Services select the same pods: the
   checkout Service and a second Service in front of the checkout Deployment,
   with version tags that hold no separator. *)

Internal == <<"i">>

\* a Service of its own name whose selector is the checkout Service's
InternalService == Service(Internal, FALSE, {<<app, Internal>>}, {<<app, Checkout>>})

SharedOrigins == {Checkout, Internal}

DashFreeVersions == {version \in Versions : ~Contains(version, separator)}

InitShared ==
    /\ services = {OriginService(Checkout, FALSE), InternalService}
    /\ deployments = {OriginDeployment(Checkout)}
    /\ vss = {}
    /\ InitProcs
    /\ InitCodecOff

NextShared ==
    \/ \E origin \in SharedOrigins, version \in DashFreeVersions : RunE(1, origin, version)
    \/ createService(1)
    \/ createDeploy(1)
    \/ createSidecarVirtualService(1)
    \/ createGatewayVirtualService(1)

SpecShared == InitShared /\ [][NextShared]_vars

\* two invocations that may interleave
NextRace ==
    \E p \in Procs :
        \/ \E version \in Versions : callCreateSidecarVirtualService(p, Checkout, version, MaxRacers)
        \/ createSidecarVirtualService(p)

SpecRace == InitCompose /\ [][NextRace]_vars

-----------------------------------------------------------------------------
(* The naming codec on its own: previewName, then getVersionFromPreview of the
   result, and getVersionFromPreview of a plain name. *)

Alphabet == {"p", "r", "-", "a"}

InitCodec ==
    /\ services = {}
    /\ deployments = {}
    /\ vss = {}
    /\ InitProcs
    /\ cpc = "input"
    /\ cName \in StringsUpTo(Alphabet, MaxLen)
    /\ cVersion \in StringsUpTo(Alphabet, MaxLen)
    /\ cPreview = <<>>
    /\ cDecoded = <<>>

Encode ==
    /\ cpc = "input"
    /\ cPreview' = previewName(cName, cVersion)
    /\ cpc' = "encoded"
    /\ UNCHANGED <<cName, cVersion, cDecoded, clusterVars, procVars, histVars>>

Decode ==
    /\ cpc = "encoded"
    /\ cDecoded' = getVersionFromPreview(cPreview)
    /\ cpc' = "decoded"
    /\ UNCHANGED <<cName, cVersion, cPreview, clusterVars, procVars, histVars>>

DecodePlain ==
    /\ cpc = "input"
    /\ cDecoded' = getVersionFromPreview(cName)
    /\ cpc' = "plain"
    /\ UNCHANGED <<cName, cVersion, cPreview, clusterVars, procVars, histVars>>

NextCodec == Encode \/ Decode \/ DecodePlain

SpecCodec == InitCodec /\ [][NextCodec]_vars

-----------------------------------------------------------------------------
(* Reading a route table as the traffic layer does *)

\* a route with no match predicate takes every request; a header-matched one
\* takes a request whose X-PREVIEW value starts with one of its prefixes
RouteMatches(route, header) ==
    \/ route.match = <<>>
    \/ /\ header # Nil
       /\ \E prefix \in Elems(route.match) : HasPrefix(header[1], prefix)

\* the destination of the first route that matches, Nil when none does
FirstMatch(http, header) ==
    IF \E i \in 1..Len(http) : RouteMatches(http[i], header)
    THEN LET first == CHOOSE i \in 1..Len(http) :
                          /\ RouteMatches(http[i], header)
                          /\ \A j \in 1..(i - 1) : ~RouteMatches(http[j], header)
         IN  Some(http[first].host)
    ELSE Nil

\* the route table of the origin in a set of routing objects
TableIn(objects, origin) ==
    LET found == {v \in objects : Len(v.gateways) = 0 /\ serviceHost(origin) \in Elems(v.hosts)}
    IN  IF found = {} THEN <<>> ELSE (CHOOSE v \in found : TRUE).http

Table(origin) == TableIn(vss, origin)

\* the gateway routing objects created for the origin and version
GatewaysOf(origin, version) ==
    {g \in vss : g.name = previewGatewayVirtualServiceName(origin, version) /\ Len(g.gateways) > 0}

IsPrefixed(route) == HasPrefix(route.name, previewPrefixName)

Prefixed(http) == SelectSeq(http, IsPrefixed)

Unprefixed(http) == SelectSeq(http, LAMBDA r : ~IsPrefixed(r))

Copies(http, route) == Cardinality({i \in 1..Len(http) : http[i] = route})

Reverse(seq) == [i \in 1..Len(seq) |-> seq[Len(seq) + 1 - i]]

-----------------------------------------------------------------------------
(* C1 *)

\* C1: after successful preview creations, one after the other, from registries
\* with no routing object for the origin, a request stamped by the gateway route
\* of a created version is sent to that version's preview host, and a request
\* with no X-PREVIEW header to the origin host.
C1_PreviewTrafficReachesPreview ==
    (clean /\ pc[1] \in Resting) =>
        \A origin \in Origins, version \in Versions :
            \A g \in GatewaysOf(origin, version) :
                /\ FirstMatch(Table(origin), g.http[1].add)
                      = Some(previewName(serviceHost(origin), version))
                /\ FirstMatch(Table(origin), Nil) = Some(serviceHost(origin))

-----------------------------------------------------------------------------
(* C2 *)

\* C2: whatever the origin's name starts with and whatever versions were
\* composed before, after a run of createSidecarVirtualService the catch-all
\* default route (no match predicate, destination the origin host) is the last
\* route of the origin's table.
C2_DefaultRouteLast ==
    (kind[1] = "compose" /\ pc[1] = "done") =>
        LET http == Table(args[1].originService)
        IN  http[Len(http)] = DefaultRoute(serviceHost(args[1].originService))

-----------------------------------------------------------------------------
(* A composition that has just returned nil: the table it found, the route it
   appended and the table it left *)

Composed(p) == pc[p] = "done" /\ kind[p] = "compose"

NewRoute(p) == PreviewRoute(args[p].originService, args[p].previewVersion)

\* the table before the append: the one listed, or the default route alone
\* of the routing object created for an origin that had none
Before(p) ==
    IF TableIn(snapshot[p][3], args[p].originService) = <<>>
    THEN <<DefaultRoute(serviceHost(args[p].originService))>>
    ELSE TableIn(snapshot[p][3], args[p].originService)

After(p) == Table(args[p].originService)

Position(http, route) == CHOOSE i \in 1..Len(http) : http[i] = route

-----------------------------------------------------------------------------
(* C3 *)

\* C3 as stated: the re-sort is a stable partition, so the routes of versions
\* composed one after the other keep their creation order (v1's before v2's).
C3_CreationOrderKept ==
    Composed(1) => After(1) = stablePartition(Append(Before(1), NewRoute(1)))

\* C3 as amended: the re-sort puts every route whose name starts with "pr"
\* before every route whose name does not, keeps the order of the latter and
\* reverses the order of the former, so the route just composed comes first
\* and v2's route precedes v1's.
C3_NewestFirst ==
    Composed(1) =>
        After(1) = Reverse(Prefixed(Append(Before(1), NewRoute(1))))
                       \o Unprefixed(Before(1))

\* v1 then v2 composed for an origin that had no routing object: v2, v1, default
C3_Witness ==
    /\ Composed(1)
    /\ \E v1 \in Versions \ {args[1].previewVersion} :
          /\ Before(1) = <<PreviewRoute(args[1].originService, v1),
                           DefaultRoute(serviceHost(args[1].originService))>>
          /\ After(1) = <<NewRoute(1), PreviewRoute(args[1].originService, v1),
                          DefaultRoute(serviceHost(args[1].originService))>>
    /\ runs = 2

-----------------------------------------------------------------------------
(* C4 *)

\* C4 as stated: composing a version whose route is already in the table
\* leaves the other routes where they were, in the same relative order, and
\* adds one copy of the version's own route.
C4_RerunKeepsOrder ==
    (Composed(1) /\ NewRoute(1) \in Elems(Before(1))) =>
        /\ SelectSeq(After(1), LAMBDA r : r # NewRoute(1))
              = SelectSeq(Before(1), LAMBDA r : r # NewRoute(1))
        /\ Copies(After(1), NewRoute(1)) = Copies(Before(1), NewRoute(1)) + 1

\* C4 as amended: composing a version whose route is already in the table
\* removes no route and adds exactly one copy of the version's own route; the
\* routes whose names do not start with "pr" keep their relative order and
\* stay behind all the others.  The order among the other "pr" routes may change.
C4_RerunKeepsRoutes ==
    (Composed(1) /\ NewRoute(1) \in Elems(Before(1))) =>
        /\ Len(After(1)) = Len(Before(1)) + 1
        /\ \A r \in Elems(Before(1)) :
              Copies(After(1), r) = Copies(Before(1), r) + (IF r = NewRoute(1) THEN 1 ELSE 0)
        /\ Unprefixed(After(1)) = Unprefixed(Before(1))
        /\ After(1) = Prefixed(After(1)) \o Unprefixed(After(1))

\* a second composition of a version, next to two other versions' routes that
\* it has swapped
C4_Witness ==
    /\ Composed(1)
    /\ Copies(After(1), NewRoute(1)) = 2
    /\ \E r1, r2 \in Elems(Before(1)) \ {NewRoute(1)} :
          /\ r1 # r2 /\ r1.match # <<>> /\ r2.match # <<>>
          /\ Position(Before(1), r1) < Position(Before(1), r2)
          /\ Position(After(1), r2) < Position(After(1), r1)

-----------------------------------------------------------------------------
(* C5 *)

Plain(s) == ~Contains(s, previewPrefixName) /\ ~Contains(s, separator)

\* C5: for an origin name and a version tag that contain neither "pr" nor "-",
\* getVersionFromPreview(previewName(name, version)) is the version.
C5_RoundTrip ==
    (cpc = "decoded" /\ Plain(cName) /\ Plain(cVersion)) => cDecoded = cVersion

C5_Witness ==
    /\ cpc = "decoded"
    /\ Plain(cName) /\ Plain(cVersion)
    /\ cName # <<>> /\ cVersion # <<>>
    /\ cPreview = previewPrefixName \o cVersion \o separator \o cName
    /\ cDecoded = cVersion

-----------------------------------------------------------------------------
(* C6 *)

\* the origin Service as the invocation found it
OriginAtStart(p) ==
    IF \E svc \in snapshot[p][1] : svc.name = args[p].originService
    THEN CHOOSE svc \in snapshot[p][1] : svc.name = args[p].originService
    ELSE ZeroService

Registries == <<services, deployments, vss>>

\* C6: a preview creation for an origin whose Service has an empty selector, or
\* that has no Service, never gets past createService, fails with the
\* selector-not-found error (a transport failure of the list aside) and leaves
\* the registries as it found them: no Service, Deployment or routing object.
C6_SelectorNotFound ==
    (kind[1] = "RunE" /\ pc[1] # "idle" /\ OriginAtStart(1).selector = {}) =>
        /\ pc[1] \in {"createService", "failed"}
        /\ pc[1] = "failed" =>
              /\ err[1] \in {"SelectorNotFound", "RemoteTransport"}
              /\ faults = 0 => err[1] = "SelectorNotFound"
        /\ Registries = snapshot[1]
        /\ writes[1] = <<>>

\* a creation for the bare origin (a Service with an empty selector, or none)
\* has failed and nothing was written
C6_Witness ==
    /\ kind[1] = "RunE" /\ pc[1] = "failed" /\ err[1] = "SelectorNotFound"
    /\ args[1].originService = Bare
    /\ OriginAtStart(1).selector = {}
    /\ Registries = snapshot[1]
    /\ writes[1] = <<>>

-----------------------------------------------------------------------------
(* C7 *)

PreviewServiceOf(p) ==
    {svc \in services : svc.name = previewName(args[p].originService, args[p].previewVersion)}

PreviewDeploymentOf(p) ==
    {d \in deployments : d.name = previewName(args[p].originService, args[p].previewVersion)}

\* the writes of a whole preview creation, in the order of the stages
StageOrders ==
    {<<"Service", "Deployment", "SidecarCreate", "SidecarPatch", "Gateway">>,
     <<"Service", "Deployment", "SidecarPatch", "Gateway">>}

\* the writes made once the named call is the next one
WritesAt(at) ==
    CASE at = "createService" -> {<<>>}
      [] at = "createDeploy" -> {<<"Service">>}
      [] at \in {"sidecarList", "sidecarCreate"} -> {<<"Service", "Deployment">>}
      [] at = "sidecarPatch" -> {<<"Service", "Deployment">>,
                                 <<"Service", "Deployment", "SidecarCreate">>}
      [] at = "createGateway" -> {<<"Service", "Deployment", "SidecarPatch">>,
                                  <<"Service", "Deployment", "SidecarCreate", "SidecarPatch">>}
      [] at = "done" -> StageOrders
      [] OTHER -> UNION {{SubSeq(o, 1, n) : n \in 0..(Len(o) - 1)} : o \in StageOrders}

\* C7: the stages write in the order Service, Deployment, sidecar routes,
\* gateway route, each only after the ones before it succeeded; a creation that
\* failed returns its error, has made no write of a later stage, and has left
\* in place what the earlier stages created.
C7_StagesInOrderNoRollback ==
    (kind[1] = "RunE" /\ pc[1] # "idle") =>
        /\ writes[1] \in WritesAt(pc[1])
        /\ pc[1] = "failed" => err[1] # "nil"
        /\ pc[1] = "done" => err[1] = "nil"
        /\ services = snapshot[1][1]
              \cup (IF "Service" \in Elems(writes[1]) THEN PreviewServiceOf(1) ELSE {})
        /\ "Service" \in Elems(writes[1]) => PreviewServiceOf(1) # {}
        /\ deployments = snapshot[1][2]
              \cup (IF "Deployment" \in Elems(writes[1]) THEN PreviewDeploymentOf(1) ELSE {})
        /\ "Deployment" \in Elems(writes[1]) => PreviewDeploymentOf(1) # {}
        /\ Elems(writes[1]) \cap {"SidecarCreate", "SidecarPatch", "Gateway"} = {}
              => vss = snapshot[1][3]
        /\ "SidecarCreate" \in Elems(writes[1]) => Table(args[1].originService) # <<>>
        /\ "SidecarPatch" \in Elems(writes[1]) => NewRoute(1) \in Elems(Table(args[1].originService))

\* the Deployment create failed and the cloned Service is still there
C7_Witness ==
    /\ kind[1] = "RunE" /\ pc[1] = "failed" /\ err[1] = "RemoteTransport"
    /\ writes[1] = <<"Service">>
    /\ PreviewServiceOf(1) # {} /\ PreviewServiceOf(1) \cap snapshot[1][1] = {}
    /\ PreviewDeploymentOf(1) = {}
    /\ vss = snapshot[1][3]

-----------------------------------------------------------------------------
(* C8 *)

PreviewServiceAtStart(p) ==
    \E svc \in snapshot[p][1] :
        svc.name = previewName(args[p].originService, args[p].previewVersion)

\* C8: a preview creation for an origin and version whose preview Service is
\* already in the registry stops at the Service create with the already-exists
\* error (a transport failure aside) and changes nothing: the cloned Service
\* and Deployment, the origin's route table and the gateway routing objects
\* are as they were.
C8_SecondRunAborts ==
    (kind[1] = "RunE" /\ pc[1] # "idle" /\ PreviewServiceAtStart(1)) =>
        /\ pc[1] \in {"createService", "failed"}
        /\ pc[1] = "failed" =>
              /\ err[1] \in {"AlreadyExists", "RemoteTransport"}
              /\ faults = 0 => err[1] = "AlreadyExists"
        /\ Registries = snapshot[1]
        /\ writes[1] = <<>>

\* the second creation of a version whose first creation went through
C8_Witness ==
    /\ kind[1] = "RunE" /\ pc[1] = "failed" /\ err[1] = "AlreadyExists"
    /\ PreviewServiceAtStart(1)
    /\ GatewaysOf(args[1].originService, args[1].previewVersion) # {}
    /\ Copies(Table(args[1].originService), NewRoute(1)) = 1
    /\ Registries = snapshot[1]

-----------------------------------------------------------------------------
(* C9 *)

BothComposed ==
    /\ Composed(1) /\ Composed(2)
    /\ args[1].originService = args[2].originService
    /\ args[1].previewVersion # args[2].previewVersion

-----------------------------------------------------------------------------
(* C10 *)

\* C10: for two distinct versions previewed for one origin, the header value
\* that the gateway route of the one stamps does not satisfy the match
\* predicate of the other's sidecar route.
C10_VersionsDoNotOverlap ==
    \A origin \in Origins, v1 \in Versions :
      \A v2 \in Versions \ {v1} :
        \A i \in 1..Len(Table(origin)), g \in GatewaysOf(origin, v2) :
            Table(origin)[i] = PreviewRoute(origin, v1)
                => ~RouteMatches(Table(origin)[i], g.http[1].add)

-----------------------------------------------------------------------------
(* C11 *)

\* the host name of a URL: what follows the scheme separator "://"
URLHost(url) ==
    LET marks == {i \in 1..(Len(url) - 2) : SubSeq(url, i, i + 2) = <<":", "/", "/">>}
    IN  IF marks = {} THEN url
        ELSE LET first == CHOOSE i \in marks : \A j \in marks : i <= j
             IN  SubSeq(url, first + 3, Len(url))

\* C11: every gateway routing object a preview creation has made for an origin
\* and version is bound to the given gateway, lists as its one host the host
\* name of the preview URL (not the URL with its scheme), and holds one route
\* that is sent to the preview host and adds the header X-PREVIEW with the
\* preview name of the origin and version.
C11_GatewayObject ==
    \A origin \in Origins, version \in Versions :
        \A g \in GatewaysOf(origin, version) :
            /\ g.gateways = <<PreviewGateway>>
            /\ g.hosts = <<URLHost(PreviewURL)>>
            /\ Len(g.http) = 1
            /\ g.http[1].host = previewName(serviceHost(origin), version)
            /\ g.http[1].add = Some(previewName(origin, version))

-----------------------------------------------------------------------------
(* C12 *)

\* a Service with this selector selects pods carrying these labels
Selects(sel, labels) == sel # {} /\ sel \subseteq labels

\* the Deployments the invocation has added
NewDeploymentsOf(p) == deployments \ snapshot[p][2]

\* the origin's Service has a selector and every pair of it is among the
\* match-labels of a Deployment
Clonable(p) ==
    /\ kind[p] = "RunE" /\ pc[p] # "idle"
    /\ OriginAtStart(p).selector # {}
    /\ \A sel \in OriginAtStart(p).selector :
           \E d \in snapshot[p][2] : sel \in d.matchLabels

\* C12: for an origin Service with a non-empty selector, with or without labels
\* of its own, and a Deployment whose match-labels contain the selector pair,
\* createService and createDeploy do not crash, and once both have written,
\* the cloned Service's label and selector and the cloned Deployment's
\* match-label and pod-template label at the selector key all hold the preview
\* name of the origin's value and the version; the cloned Service selects the
\* cloned pods and not the origin's, and the origin Service does not select
\* the cloned pods.
C12_ClonesRetagged ==
    Clonable(1) =>
        /\ pc[1] = "panicked" => "Deployment" \in Elems(writes[1])
        /\ "Deployment" \in Elems(writes[1]) =>
              LET key == selector[1][1][1]
                  tag == previewName(selector[1][1][2], args[1].previewVersion)
              IN  /\ PreviewServiceOf(1) # {}
                  /\ NewDeploymentsOf(1) # {}
                  /\ \A svc \in PreviewServiceOf(1), d \in NewDeploymentsOf(1) :
                        /\ MapGet(svc.labels, key) = tag
                        /\ MapGet(svc.selector, key) = tag
                        /\ MapGet(d.matchLabels, key) = tag
                        /\ MapGet(d.tmplLabels, key) = tag
                        /\ Selects(svc.selector, d.tmplLabels)
                        /\ \A o \in snapshot[1][2] :
                              OriginAtStart(1).selector \subseteq o.matchLabels
                                  => ~Selects(svc.selector, o.tmplLabels)
                        /\ ~Selects(OriginAtStart(1).selector, d.tmplLabels)

-----------------------------------------------------------------------------
(* C13 *)

PreviewRoutes(http) == SelectSeq(http, LAMBDA r : r.match # <<>>)

DefaultRoutes(http) == SelectSeq(http, LAMBDA r : r.match = <<>>)

\* the sidecar routing objects of an origin
SidecarsOf(origin) == {v \in vss : Len(v.gateways) = 0 /\ serviceHost(origin) \in Elems(v.hosts)}

\* the preview routes of both origins' tables together
PreviewRouteCount == Len(PreviewRoutes(Table(Checkout))) + Len(PreviewRoutes(Table(Product)))

\* C13: from registries with no routing object, (a) a composition for an origin
\* that has none creates one named previewVirtualServiceName(origin), and
\* between that create and the patch the object holds the default route alone;
\* (b) every composition that succeeds leaves a table one route longer than
\* the one it found, with every route it found still there and the new
\* preview route added; (c) after k successful compositions and no failed one
\* the tables hold k preview routes in all, and every table that exists holds
\* exactly one route with no match predicate, the default route of its origin.
C13_OneRoutePerComposition ==
    /\ \A origin \in {Checkout, Product} :
          /\ Cardinality(SidecarsOf(origin)) <= 1
          /\ \A v \in SidecarsOf(origin) :
                /\ v.name = previewVirtualServiceName(origin)
                /\ v.ns = istioNamespace
                /\ DefaultRoutes(v.http) = <<DefaultRoute(serviceHost(origin))>>
    /\ (pc[1] = "sidecarPatch" /\ writes[1] = <<"SidecarCreate">>) =>
          /\ TableIn(snapshot[1][3], args[1].originService) = <<>>
          /\ After(1) = <<DefaultRoute(serviceHost(args[1].originService))>>
    /\ Composed(1) =>
          /\ Len(After(1)) = Len(Before(1)) + 1
          /\ \A r \in Elems(Before(1)) \cup {NewRoute(1)} :
                Copies(After(1), r) = Copies(Before(1), r) + (IF r = NewRoute(1) THEN 1 ELSE 0)
    /\ PreviewRouteCount <= runs
    /\ (clean /\ pc[1] \in {"idle", "done"}) => PreviewRouteCount = runs

\* three compositions for the checkout origin have succeeded, the first of
\* which created the routing object: three preview routes and the default
C13_Witness ==
    /\ clean /\ Composed(1) /\ runs = 3
    /\ Len(PreviewRoutes(Table(Checkout))) = 3
    /\ DefaultRoutes(Table(Checkout)) = <<DefaultRoute(serviceHost(Checkout))>>
    /\ Table(Product) = <<>>

-----------------------------------------------------------------------------
(* C14 *)

\* the steps at which a route stage obtains its client
RouteStageEntries == {"sidecarList", "createGateway"}

\* C14: a transport failure at the entry of a route stage, where the stage
\* obtains the route-registry client, is returned as the stage's error: the
\* invocation ends as failed with that error and no routing object has been
\* created or patched.
C14_ClientErrorReturned ==
    [][(pc[1] \in RouteStageEntries /\ faults' # faults) =>
           /\ pc'[1] = "failed"
           /\ err'[1] = "RemoteTransport"
           /\ vss' = vss]_vars

-----------------------------------------------------------------------------
(* C15 *)

\* the origin's Service has a selector and no Deployment has a pair of it
\* among its match-labels
NoMatch(p) ==
    /\ kind[p] = "RunE" /\ pc[p] # "idle"
    /\ OriginAtStart(p).selector # {}
    /\ \A sel \in OriginAtStart(p).selector, d \in snapshot[p][2] : sel \notin d.matchLabels

\* C15 as stated: when no Deployment matches the selector pair, createDeploy
\* clones the zero-value Deployment and submits its create, so once the
\* invocation has cloned the Service and come to rest with no transport failure
\* a Deployment named previewName("", version) is in the registry.
C15_EmptyCloneCreated ==
    (NoMatch(1) /\ pc[1] \in Resting /\ "Service" \in Elems(writes[1]) /\ faults = 0) =>
        \E d \in deployments : d.name = previewName(<<>>, args[1].previewVersion)

\* C15 amended: when no Deployment matches the selector pair, createDeploy does
\* not return an error at the lookup, and it submits no create either: the
\* invocation ends in createDeploy with a crash (or with a transport error of
\* its client or list), the Deployment registry is as it was found, no routing
\* stage is reached, and the Service cloned by createService remains.
C15_NoMatchPanics ==
    NoMatch(1) =>
        /\ pc[1] \in {"createService", "createDeploy", "failed", "panicked"}
        /\ deployments = snapshot[1][2]
        /\ vss = snapshot[1][3]
        /\ "Deployment" \notin Elems(writes[1])
        /\ pc[1] = "panicked" => (writes[1] = <<"Service">> /\ PreviewServiceOf(1) # {})
        /\ (pc[1] = "failed" /\ writes[1] = <<"Service">>) => err[1] = "RemoteTransport"
        /\ (pc[1] \in Resting /\ writes[1] = <<"Service">> /\ faults = 0) => pc[1] = "panicked"

\* a creation for the product origin, whose Deployment is missing, has cloned
\* the Service and crashed in createDeploy
C15_Witness ==
    /\ NoMatch(1)
    /\ args[1].originService = Product
    /\ pc[1] = "panicked"
    /\ writes[1] = <<"Service">>
    /\ PreviewServiceOf(1) # {}
    /\ deployments = snapshot[1][2]
    /\ faults = 0

-----------------------------------------------------------------------------
(* C16 *)

\* a merge base for the origin: no gateway binding, the origin host among hosts
IsMergeBase(v, origin) == Len(v.gateways) = 0 /\ serviceHost(origin) \in Elems(v.hosts)

\* C16: in every run of createSidecarVirtualService the routing object taken
\* as merge base declares no gateway and has the origin's host among its
\* hosts; every routing object the run found that is bound to a gateway or
\* is for other hosts is still in the registry exactly as it was found, and
\* every object the run has added or changed is a merge base of the origin.
C16_OnlyMergeBaseTouched ==
    (kind[1] = "compose" /\ pc[1] # "idle") =>
        /\ base[1] # Nil => IsMergeBase(base[1][1], args[1].originService)
        /\ \A v \in snapshot[1][3] : ~IsMergeBase(v, args[1].originService) => v \in vss
        /\ \A v \in vss \ snapshot[1][3] : IsMergeBase(v, args[1].originService)

\* a composition for the checkout origin has patched the operator's mesh
\* object while a gateway-bound object for the same host and a mesh object
\* for another host were in the registry
C16_Witness ==
    /\ Composed(1)
    /\ args[1].originService = Checkout
    /\ "SidecarPatch" \in Elems(writes[1])
    /\ {EdgeVirtualService, OtherVirtualService} \subseteq snapshot[1][3]
    /\ {EdgeVirtualService, OtherVirtualService} \subseteq vss
    /\ vss # snapshot[1][3]

-----------------------------------------------------------------------------
(* C17 *)

\* no route whose name starts with "pr" comes after one whose name does not
Partitioned(http) ==
    \A i, j \in 1..Len(http) :
        (i < j /\ IsPrefixed(http[j])) => IsPrefixed(http[i])

\* C17: after every run of createSidecarVirtualService that has returned nil,
\* whatever the table it found (partitioned or not, of the operator's or of
\* earlier runs, up to 6 routes), every route whose name starts with "pr" is
\* positioned before every route whose name does not.
C17_PrefixedRoutesFirst ==
    Composed(1) => Partitioned(After(1))

\* a composition found the operator's table with the default route ahead of a
\* "pr"-named route and left it partitioned, both groups non-empty
C17_Witness ==
    /\ Composed(1)
    /\ ~Partitioned(Before(1))
    /\ Partitioned(After(1))
    /\ Len(Prefixed(After(1))) >= 2
    /\ Len(Unprefixed(After(1))) >= 1

-----------------------------------------------------------------------------
(* C18 *)

\* the names and separator-free versions the invocation's pair is compared with
PairAlphabet == {"c", "4", "-"}

OtherNames == StringsUpTo(PairAlphabet, MaxLen)

OtherVersions == {version \in OtherNames : ~Contains(version, separator)}

\* the pairs other than the invocation's own
OtherPairs(p) ==
    {pair \in OtherNames \X OtherVersions :
        pair # <<args[p].originService, args[p].previewVersion>>}

\* the invocation failed with already-exists though its own pair's preview
\* Service was not there when it began
CrossPairCollision(p) ==
    /\ kind[p] = "RunE" /\ pc[p] = "failed" /\ err[p] = "AlreadyExists"
    /\ ~PreviewServiceAtStart(p)

\* C18 as stated: with versions that hold no "-", an already-exists failure of
\* a preview creation is never a collision with another pair's resources: it
\* only happens when the pair's own preview Service was there already.
C18_NoCrossPairCollision == ~CrossPairCollision(1)

\* C18 amended: with versions that hold no "-", (a) no other pair of a name
\* and a separator-free version yields the name of the Service, the preview
\* host or the name of the gateway routing object that the creation has
\* written; (b) a creation whose own preview Service was not there fails with
\* already-exists only at the Deployment create, after cloning its Service:
\* the Deployment clone is named after the Deployment found, not after the
\* origin, and the clone of that Deployment for that version was there
\* already, made by the creation for another origin.
C18_NamesInjective ==
    (kind[1] = "RunE" /\ pc[1] # "idle") =>
        /\ \A pair \in OtherPairs(1) :
              /\ \A svc \in services \ snapshot[1][1] :
                    svc.name # previewName(pair[1], pair[2])
              /\ \A g \in vss \ snapshot[1][3] :
                    Len(g.gateways) > 0 =>
                        /\ g.name # previewGatewayVirtualServiceName(pair[1], pair[2])
                        /\ g.http[1].host # previewName(serviceHost(pair[1]), pair[2])
        /\ CrossPairCollision(1) =>
              /\ writes[1] = <<"Service">>
              /\ \E d \in snapshot[1][2], o \in snapshot[1][2] :
                    /\ selector[1][1] \in o.matchLabels
                    /\ d.name = previewName(o.name, args[1].previewVersion)

\* after a whole creation for checkout, the creation for the second Service of
\* the same pods and the same version has cloned its Service under a name of
\* its own and failed at the Deployment create
C18_Witness ==
    /\ CrossPairCollision(1)
    /\ args[1].originService = Internal
    /\ writes[1] = <<"Service">>
    /\ GatewaysOf(Checkout, args[1].previewVersion) # {}
    /\ Cardinality({svc \in services :
           svc.name \in {previewName(origin, args[1].previewVersion) : origin \in SharedOrigins}}) = 2

-----------------------------------------------------------------------------
(* C19 *)

\* the name is previewName(x, version) for some x
IsPreviewNameFor(name, version) == HasPrefix(name, previewName(<<>>, version))

\* the routing objects the invocation found that are no longer as they were
ChangedRoutingObjects(p) == snapshot[p][3] \ vss

\* C19: at every point of a preview creation, failed or not, every Service and
\* Deployment the creation found (the origin's, other origins', earlier
\* previews) is in the registry as it was; every Service or Deployment added
\* is named previewName(x, version) for the creation's version; and the only
\* routing object that is not as it was found is the origin's sidecar routing
\* object, still there under its name with the routes it had.
C19_OriginsAndEarlierPreviewsKept ==
    (kind[1] = "RunE" /\ pc[1] # "idle") =>
        /\ snapshot[1][1] \subseteq services
        /\ snapshot[1][2] \subseteq deployments
        /\ \A svc \in services \ snapshot[1][1] :
              IsPreviewNameFor(svc.name, args[1].previewVersion)
        /\ \A d \in deployments \ snapshot[1][2] :
              IsPreviewNameFor(d.name, args[1].previewVersion)
        /\ Cardinality(ChangedRoutingObjects(1)) <= 1
        /\ \A old \in ChangedRoutingObjects(1) :
              /\ IsMergeBase(old, args[1].originService)
              /\ "SidecarPatch" \in Elems(writes[1])
              /\ \E new \in vss :
                    /\ new.name = old.name /\ new.ns = old.ns
                    /\ \A r \in Elems(old.http) : Copies(new.http, r) >= Copies(old.http, r)

\* a second whole creation for the checkout origin: the origin's Service and
\* Deployment and the earlier preview's are as found, the new clones are
\* there, and the sidecar routing object is the one object that changed
C19_Witness ==
    /\ kind[1] = "RunE" /\ pc[1] = "done"
    /\ args[1].originService = Checkout
    /\ \E earlier \in Versions \ {args[1].previewVersion} :
          /\ \E svc \in snapshot[1][1] : svc.name = previewName(Checkout, earlier)
          /\ \E d \in snapshot[1][2] : d.name = previewName(Checkout, earlier)
    /\ OriginService(Checkout, FALSE) \in services
    /\ OriginDeployment(Checkout) \in deployments
    /\ snapshot[1][1] \subseteq services /\ snapshot[1][2] \subseteq deployments
    /\ PreviewServiceOf(1) # {} /\ PreviewDeploymentOf(1) # {}
    /\ Cardinality(ChangedRoutingObjects(1)) = 1

====
